---- MODULE Spec2Model ----
(***************************************************************************)
(* fix-revenue.py: read src/components/Goals.tsx as text, substitute every *)
(* match of old_pattern by new_pattern with re.sub, write the text back to *)
(* the same path and print "Fixed!".                                       *)
(*                                                                         *)
(* The file is a sequence of bytes, one-character strings standing for the *)
(* ASCII characters and BAD for a byte that is not valid UTF-8.  A run is  *)
(* a process that walks the statements of the script; the file is the only *)
(* thing runs share.                                                       *)
(***************************************************************************)
EXTENDS Integers, Sequences, FiniteSets, TLC

\* ------------------------------------------------------------------------
\* Bounds of the model

\* an initial file is a concatenation of at most MaxChunks chunks
MaxChunks == 3

\* a failing write leaves a prefix whose length is a multiple of CutStep
CutStep == 16

\* the same, for the files two invocations are run on
MaxChunksTwo == 2

\* ------------------------------------------------------------------------
\* The script's literals (lines 10, 11 and 19)

old_pattern ==
  <<"\\", "$", "\\", "{", "\\", "(", "g", "o", "a", "l", " ", "a", "s", " ",
    "R", "e", "v", "e", "n", "u", "e", "G", "o", "a", "l", "\\", ")", "\\", ".",
    "c", "u", "r", "r", "e", "n", "t", "A", "m", "o", "u", "n", "t", "\\", "}">>

new_pattern ==
  <<"$", "{", "p", "r", "o", "g", "r", "e", "s", "s", ".", "c", "u", "r", "r",
    "e", "n", "t", "V", "a", "l", "u", "e", ".", "t", "o", "F", "i", "x", "e",
    "d", "(", "2", ")", "}">>

Fixed == "Fixed!"

\* ------------------------------------------------------------------------
\* Bytes and text

CR == "\r"
LF == "\n"
\* a byte that no UTF-8 sequence contains (0xFF)
BAD == "0xFF"

\* os.linesep of the platforms the script runs on
Platforms == {<<LF>>, <<CR, LF>>}

\* the least index at or after i where s holds c, Len(s) + 1 if there is none
IndexFrom(s, c, i) ==
  LET at == {j \in i..Len(s) : s[j] = c}
  IN  IF at = {} THEN Len(s) + 1 ELSE CHOOSE j \in at : \A k \in at : j <= k

RECURSIVE Translate(_, _)
\* reading in text mode with newline=None: from index i on, "\r\n" and "\r"
\* become "\n"
Translate(b, i) ==
  LET r == IndexFrom(b, CR, i) IN
  IF r > Len(b) THEN SubSeq(b, i, Len(b))
  ELSE SubSeq(b, i, r - 1) \o <<LF>>
       \o Translate(b, IF r < Len(b) /\ b[r + 1] = LF THEN r + 2 ELSE r + 1)

\* the bytes are valid UTF-8
Decodable(b) == \A i \in 1..Len(b) : b[i] # BAD

\* fault: the file is read with newline='', no translation
TextRead_raw(b) == b

\* f.read() of a file opened with 'r', encoding='utf-8'
TextRead(b) == Translate(b, 1)

RECURSIVE Untranslate(_, _, _)
\* writing in text mode with newline=None: from index i on, "\n" becomes
\* os.linesep
Untranslate(t, sep, i) ==
  LET n == IndexFrom(t, LF, i) IN
  IF n > Len(t) THEN SubSeq(t, i, Len(t))
  ELSE SubSeq(t, i, n - 1) \o sep \o Untranslate(t, sep, n + 1)

\* the bytes f.write(content) sends to a file opened with 'w', encoding='utf-8'
TextWrite(t, sep) == Untranslate(t, sep, 1)

\* fault: the first open uses a truncating mode ('w+')
OpenedForRead_trunc(f) == <<>>

\* the file after open(path, 'r'): untouched
OpenedForRead(f) == f

\* fault: the second open uses a mode that keeps the content ('r+')
OpenedForWrite_keep(f) == f

\* the file after open(path, 'w'): truncated to length zero
OpenedForWrite(f) == <<>>

\* fault: the handle appends ('a') instead of writing from position 0
WrittenAt_append(f, b, n) == f \o SubSeq(b, 1, n)

\* the file after n bytes of b went out through a handle positioned at 0
WrittenAt(f, b, n) == SubSeq(b, 1, n) \o SubSeq(f, n + 1, Len(f))

\* ------------------------------------------------------------------------
\* re.sub(old_pattern, new_pattern, content)

Lit(c) == [kind |-> "lit", ch |-> c]
AnyChar == [kind |-> "any", ch |-> ""]

RECURSIVE CompileFrom(_, _)
\* the regex parser: a backslash makes the next character a literal, an
\* unescaped dot matches any character but a newline
CompileFrom(src, i) ==
  IF i > Len(src) THEN <<>>
  ELSE IF src[i] = "\\" /\ i < Len(src)
       THEN <<Lit(src[i + 1])>> \o CompileFrom(src, i + 2)
       ELSE IF src[i] = "."
            THEN <<AnyChar>> \o CompileFrom(src, i + 1)
            ELSE <<Lit(src[i])>> \o CompileFrom(src, i + 1)

Compile(src) == CompileFrom(src, 1)

Pattern == Compile(old_pattern)

AtomMatches(a, c) ==
  IF a.kind = "lit" THEN c = a.ch ELSE c # LF

\* the compiled pattern matches s at index i
MatchAt(pat, s, i) ==
  /\ i + Len(pat) - 1 <= Len(s)
  /\ \A j \in 1..Len(pat) : AtomMatches(pat[j], s[i + j - 1])

RECURSIVE ExpandFrom(_, _)
\* the replacement template: a doubled backslash is one backslash, every
\* other character stands for itself
ExpandFrom(t, i) ==
  IF i > Len(t) THEN <<>>
  ELSE IF t[i] = "\\" /\ i < Len(t) /\ t[i + 1] = "\\"
       THEN <<"\\">> \o ExpandFrom(t, i + 2)
       ELSE <<t[i]>> \o ExpandFrom(t, i + 1)

Expand(t) == ExpandFrom(t, 1)

Replacement == Expand(new_pattern)

\* the least index at or after i where the pattern matches s, Len(s) + 1 if
\* there is none
SearchFrom(pat, s, i) ==
  LET at == {j \in i..Len(s) : MatchAt(pat, s, j)}
  IN  IF at = {} THEN Len(s) + 1 ELSE CHOOSE j \in at : \A k \in at : j <= k

RECURSIVE SubFrom(_, _, _, _)
\* search from i for the next match, copy the text before it, emit the
\* replacement and resume after the match (matches do not overlap); left
\* counts the substitutions still allowed (-1: no limit)
SubFrom(pat, s, i, left) ==
  LET m == SearchFrom(pat, s, i) IN
  IF left = 0 \/ m > Len(s) THEN SubSeq(s, i, Len(s))
  ELSE SubSeq(s, i, m - 1) \o Replacement
       \o SubFrom(pat, s, m + Len(pat), IF left > 0 THEN left - 1 ELSE left)

\* fault: re.sub called with count=1
re_sub_once(s) == SubFrom(Pattern, s, 1, 1)

re_sub(s) == SubFrom(Pattern, s, 1, -1)

\* lines 5-17 as a function of the bytes of the file: read, substitute, write
OneRun(b, sep) == TextWrite(re_sub(TextRead(b)), sep)

\* ------------------------------------------------------------------------
\* The files the script is run on

\* the text the patch removes and the text it puts in place, as the script's
\* comment and the target file spell them
OldText ==
  <<"$", "{", "(", "g", "o", "a", "l", " ", "a", "s", " ", "R", "e", "v", "e",
    "n", "u", "e", "G", "o", "a", "l", ")", ".", "c", "u", "r", "r", "e", "n",
    "t", "A", "m", "o", "u", "n", "t", "}">>

NewText ==
  <<"$", "{", "p", "r", "o", "g", "r", "e", "s", "s", ".", "c", "u", "r", "r",
    "e", "n", "t", "V", "a", "l", "u", "e", ".", "t", "o", "F", "i", "x", "e",
    "d", "(", "2", ")", "}">>

\* OldText cut in two after "goal": each half alone is a partial match, the
\* halves with one character between them a variation of the text
OldHead == SubSeq(OldText, 1, 7)
OldTail == SubSeq(OldText, 8, Len(OldText))

Chunks ==
  {OldText, NewText, OldHead, OldTail, <<CR>>, <<LF>>, <<"x">>, <<BAD>>}

RECURSIVE Files(_)
Files(n) ==
  IF n = 0 THEN {<<>>}
  ELSE Files(n - 1) \cup {f \o c : f \in Files(n - 1), c \in Chunks}

\* ------------------------------------------------------------------------
\* State

Procs == {1, 2}

VARIABLES
  file,     \* the bytes of src/components/Goals.tsx
  linesep,  \* os.linesep of the machine
  budget,   \* invocations of the script still to come
  pc,       \* pc[p]: the statement run p is at
  content,  \* content[p]: the script's variable content
  rh,       \* rh[p]: the handle of line 5 is open
  wh,       \* wh[p]: the handle of line 16 is open
  exc,      \* exc[p]: the statement that raised, "none" if none did
  printed,  \* printed[p]: what run p wrote to standard output
  orig,     \* the bytes of the file before the first run
  seen,     \* seen[p]: the bytes of the file when run p read it
  raced,    \* raced[p]: another run held the file open for writing then
  prior     \* prior[p]: the runs that had completed when run p was invoked

vars ==
  <<file, linesep, budget, pc, content, rh, wh, exc, printed, orig, seen, raced,
    prior>>

InitRuns(n, m) ==
  /\ file \in Files(m)
  /\ linesep \in Platforms
  /\ budget = n
  /\ pc = [p \in Procs |-> "idle"]
  /\ content = [p \in Procs |-> <<>>]
  /\ rh = [p \in Procs |-> FALSE]
  /\ wh = [p \in Procs |-> FALSE]
  /\ exc = [p \in Procs |-> "none"]
  /\ printed = [p \in Procs |-> <<>>]
  /\ orig = file
  /\ seen = [p \in Procs |-> <<>>]
  /\ raced = [p \in Procs |-> FALSE]
  /\ prior = [p \in Procs |-> {}]

\* one invocation of the script
Init == InitRuns(1, MaxChunks)

\* two invocations of the script on the same file
InitTwo == InitRuns(2, MaxChunksTwo)

\* ------------------------------------------------------------------------
\* The statements of the script

\* python3 fix-revenue.py
Invoke(p) ==
  /\ pc[p] = "idle"
  /\ budget > 0
  /\ \A q \in Procs : q < p => pc[q] # "idle"
  /\ budget' = budget - 1
  /\ pc' = [pc EXCEPT ![p] = "open_r"]
  /\ prior' = [prior EXCEPT ![p] = {q \in Procs : pc[q] = "done"}]
  /\ UNCHANGED <<file, linesep, content, rh, wh, exc, printed, orig, seen, raced>>

\* line 5: open(path, 'r', encoding='utf-8'); raises when the file is missing
\* or unreadable
OpenRead(p) ==
  /\ pc[p] = "open_r"
  /\ \/ /\ file' = OpenedForRead(file)
        /\ rh' = [rh EXCEPT ![p] = TRUE]
        /\ pc' = [pc EXCEPT ![p] = "read"]
        /\ exc' = exc
     \/ /\ exc' = [exc EXCEPT ![p] = "open_r"]
        /\ pc' = [pc EXCEPT ![p] = "failed"]
        /\ UNCHANGED <<file, rh>>
  /\ UNCHANGED <<linesep, budget, content, wh, printed, orig, seen, raced, prior>>

\* line 6: content = f.read(); raises UnicodeDecodeError on invalid UTF-8
Read(p) ==
  /\ pc[p] = "read"
  /\ seen' = [seen EXCEPT ![p] = file]
  /\ raced' = [raced EXCEPT ![p] = \E q \in Procs \ {p} : wh[q]]
  /\ IF Decodable(file)
     THEN /\ content' = [content EXCEPT ![p] = TextRead(file)]
          /\ exc' = exc
     ELSE /\ exc' = [exc EXCEPT ![p] = "read"]
          /\ content' = content
  /\ pc' = [pc EXCEPT ![p] = "exit_r"]
  /\ UNCHANGED <<file, linesep, budget, rh, wh, printed, orig, prior>>

\* fault: f.close() after the read instead of a with block: an exception
\* skips it
ExitRead_leak(p) ==
  /\ pc[p] = "exit_r"
  /\ rh' = [rh EXCEPT ![p] = exc[p] # "none"]
  /\ pc' = [pc EXCEPT ![p] = IF exc[p] = "none" THEN "sub" ELSE "failed"]
  /\ UNCHANGED <<file, linesep, budget, content, wh, exc, printed, orig, seen,
                 raced, prior>>

\* lines 5-6: leaving the with block closes the handle, with or without an
\* exception in flight
ExitRead(p) ==
  /\ pc[p] = "exit_r"
  /\ rh' = [rh EXCEPT ![p] = FALSE]
  /\ pc' = [pc EXCEPT ![p] = IF exc[p] = "none" THEN "sub" ELSE "failed"]
  /\ UNCHANGED <<file, linesep, budget, content, wh, exc, printed, orig, seen,
                 raced, prior>>

\* lines 10-13: content = re.sub(old_pattern, new_pattern, content)
Substitute(p) ==
  /\ pc[p] = "sub"
  /\ content' = [content EXCEPT ![p] = re_sub(content[p])]
  /\ pc' = [pc EXCEPT ![p] = "open_w"]
  /\ UNCHANGED <<file, linesep, budget, rh, wh, exc, printed, orig, seen, raced, prior>>

\* line 16: open(path, 'w', encoding='utf-8'); raises when the file cannot be
\* opened for writing
OpenWrite(p) ==
  /\ pc[p] = "open_w"
  /\ \/ /\ file' = OpenedForWrite(file)
        /\ wh' = [wh EXCEPT ![p] = TRUE]
        /\ pc' = [pc EXCEPT ![p] = "write"]
        /\ exc' = exc
     \/ /\ exc' = [exc EXCEPT ![p] = "open_w"]
        /\ pc' = [pc EXCEPT ![p] = "failed"]
        /\ UNCHANGED <<file, wh>>
  /\ UNCHANGED <<linesep, budget, content, rh, printed, orig, seen, raced, prior>>

\* the lengths a write that fails can have put in the file
Cuts(b) == {k \in 0..(Len(b) - 1) : k % CutStep = 0}

\* line 17: f.write(content); all the bytes go out, or the write raises (disk
\* full, I/O error) with a proper prefix of them in the file
Write(p) ==
  /\ pc[p] = "write"
  /\ LET b == TextWrite(content[p], linesep) IN
     \/ /\ file' = WrittenAt(file, b, Len(b))
        /\ exc' = exc
     \/ \E k \in Cuts(b) :
          /\ file' = WrittenAt(file, b, k)
          /\ exc' = [exc EXCEPT ![p] = "write"]
  /\ pc' = [pc EXCEPT ![p] = "exit_w"]
  /\ UNCHANGED <<linesep, budget, content, rh, wh, printed, orig, seen, raced, prior>>

\* fault: the exception of the write is swallowed and the script goes on
ExitWrite_swallow(p) ==
  /\ pc[p] = "exit_w"
  /\ wh' = [wh EXCEPT ![p] = FALSE]
  /\ pc' = [pc EXCEPT ![p] = "print"]
  /\ UNCHANGED <<file, linesep, budget, content, rh, exc, printed, orig, seen,
                 raced, prior>>

\* lines 16-17: leaving the with block closes the handle, with or without an
\* exception in flight
ExitWrite(p) ==
  /\ pc[p] = "exit_w"
  /\ wh' = [wh EXCEPT ![p] = FALSE]
  /\ pc' = [pc EXCEPT ![p] = IF exc[p] = "none" THEN "print" ELSE "failed"]
  /\ UNCHANGED <<file, linesep, budget, content, rh, exc, printed, orig, seen,
                 raced, prior>>

\* line 19: print("Fixed!")
PrintFixed(p) ==
  /\ pc[p] = "print"
  /\ printed' = [printed EXCEPT ![p] = Append(printed[p], Fixed)]
  /\ pc' = [pc EXCEPT ![p] = "done"]
  /\ UNCHANGED <<file, linesep, budget, content, rh, wh, exc, orig, seen, raced, prior>>

Next ==
  \E p \in Procs :
    \/ Invoke(p)
    \/ OpenRead(p)
    \/ Read(p)
    \/ ExitRead(p)
    \/ Substitute(p)
    \/ OpenWrite(p)
    \/ Write(p)
    \/ ExitWrite(p)
    \/ PrintFixed(p)

Spec == Init /\ [][Next]_vars

SpecTwo == InitTwo /\ [][Next]_vars

\* ------------------------------------------------------------------------
\* Vocabulary of the properties

\* the text t stands in s at index i
Occurs(t, s, i) ==
  /\ i >= 1
  /\ i + Len(t) - 1 <= Len(s)
  /\ SubSeq(s, i, i + Len(t) - 1) = t

Positions(t, s) == {i \in 1..Len(s) : Occurs(t, s, i)}

Count(t, s) == Cardinality(Positions(t, s))

RECURSIVE PatchedFrom(_, _)
\* s from index i on, with every occurrence of OldText cut out and NewText put
\* in its place, and nothing else touched
PatchedFrom(s, i) ==
  LET at == {j \in Positions(OldText, s) : j >= i} IN
  IF at = {} THEN SubSeq(s, i, Len(s))
  ELSE LET m == CHOOSE j \in at : \A k \in at : j <= k
       IN  SubSeq(s, i, m - 1) \o NewText \o PatchedFrom(s, m + Len(OldText))

Patched(s) == PatchedFrom(s, 1)

\* s is a proper prefix of t
ProperPrefix(s, t) == Len(s) < Len(t) /\ s = SubSeq(t, 1, Len(s))

\* s holds a part of OldText and never the whole of it
OnlyPartial(s) ==
  /\ Count(OldText, s) = 0
  /\ Count(OldHead, s) + Count(OldTail, s) >= 1

Finished(p) == pc[p] = "done"

\* ------------------------------------------------------------------------
\* C1

\* C1 as stated: after a successful run on a file with N >= 1 occurrences of
\* the old text, the file holds none of them and N occurrences of the new text.
C1_CountIsN ==
  \A p \in Procs :
    Finished(p) /\ Count(OldText, orig) >= 1 =>
      /\ Count(OldText, file) = 0
      /\ Count(NewText, file) = Count(OldText, orig)

\* C1, amended: after a successful run on a file with N >= 1 occurrences of the
\* old text, the file holds none of them and N occurrences of the new text
\* besides those it held before; in the text as read (line endings as "\n"),
\* the k-th match, at index i, has the new text at i moved left by
\* (k-1) * (Len(OldText) - Len(NewText)), and the new text stands nowhere but
\* at the moved indexes of the matches and of its earlier occurrences.
C1_MatchesReplaced ==
  \A p \in Procs :
    Finished(p) /\ Count(OldText, orig) >= 1 =>
      LET d == TextRead(orig)
          o == TextRead(file)
          M == Positions(OldText, d)
          R == Positions(NewText, d)
          Moved(i) ==
            i - (Len(OldText) - Len(NewText)) * Cardinality({j \in M : j < i})
      IN  /\ Count(OldText, file) = 0
          /\ Count(NewText, file) = Count(OldText, orig) + Count(NewText, orig)
          /\ \A i \in M : Occurs(NewText, o, Moved(i))
          /\ Positions(NewText, o) = {Moved(i) : i \in M \cup R}

\* a run finished on a file that held the old text twice and the new text once
C1_Witness ==
  /\ Finished(1)
  /\ Count(OldText, orig) = 2
  /\ Count(NewText, orig) = 1
  /\ Count(NewText, file) = 3

\* ------------------------------------------------------------------------
\* C2

\* C2: a successful run on a file without any occurrence of the old text, the
\* empty file included, leaves the bytes of the file as they were.
C2_NoMatchUnchanged ==
  \A p \in Procs :
    Finished(p) /\ Count(OldText, orig) = 0 => file = orig

\* ------------------------------------------------------------------------
\* C3

\* C3: a run that starts after another run completed, and completes, leaves
\* the file as it found it, and found no match in it: two runs in succession
\* end with what the first run left.
C3_Idempotent ==
  \A p, q \in Procs :
    Finished(q) /\ p \in prior[q] =>
      /\ Count(OldText, seen[q]) = 0
      /\ file = seen[q]

\* the second of two runs in succession finished, on a file where the first
\* replaced two matches
C3_Witness ==
  /\ Finished(2)
  /\ 1 \in prior[2]
  /\ Count(OldText, orig) = 2
  /\ Count(NewText, file) = 2

\* ------------------------------------------------------------------------
\* C4

\* C4: after a successful run the file is the file of before with every match
\* replaced and every other byte as it was, in its place.
C4_OnlyMatchesChange ==
  \A p \in Procs : Finished(p) => file = Patched(orig)

\* ------------------------------------------------------------------------
\* C5

\* C5: an exception is never recovered from (the run unwinds to failed and
\* prints nothing), and when it was raised by the first open, by the read or by
\* the second open, the file holds what it held before the run.
C5_EarlyFailure ==
  \A p \in Procs :
    exc[p] # "none" =>
      /\ pc[p] \in {"exit_r", "exit_w", "failed"}
      /\ printed[p] = <<>>
      /\ exc[p] \in {"open_r", "read", "open_w"} => file = orig

\* a run failed at the second open, after it substituted a match in memory
C5_Witness ==
  /\ pc[1] = "failed"
  /\ exc[1] = "open_w"
  /\ Count(OldText, orig) = 1
  /\ content[1] # TextRead(orig)
  /\ file = orig

\* ------------------------------------------------------------------------
\* C6

\* C6: a run that finished has printed the message once; a run that printed
\* has finished without an exception, with both handles closed and with the
\* file holding the bytes of its content.
C6_PrintedAfterWrite ==
  \A p \in Procs :
    /\ Finished(p) => printed[p] = <<Fixed>>
    /\ printed[p] # <<>> =>
         /\ printed[p] = <<Fixed>>
         /\ Finished(p)
         /\ exc[p] = "none"
         /\ ~rh[p] /\ ~wh[p]
         /\ file = TextWrite(content[p], linesep)

\* a run finished and printed on a file without a match
C6_Witness ==
  /\ Finished(1)
  /\ printed[1] = <<Fixed>>
  /\ Count(OldText, orig) = 0
  /\ orig # <<>>

\* ------------------------------------------------------------------------
\* C7

\* C7: a run never holds both handles; the read handle is open only inside
\* the first with block and the write handle only inside the second, which
\* the run enters after it left the first; a run that ended, done or failed,
\* holds no handle.
C7_HandlesScoped ==
  \A p \in Procs :
    /\ ~(rh[p] /\ wh[p])
    /\ rh[p] => pc[p] \in {"read", "exit_r"}
    /\ wh[p] => pc[p] \in {"write", "exit_w"}
    /\ pc[p] \in {"done", "failed"} => ~rh[p] /\ ~wh[p]

\* a run ended on a failed read
C7_Witness ==
  /\ pc[1] = "failed"
  /\ exc[1] = "read"
  /\ ~rh[1]

\* ------------------------------------------------------------------------
\* C8

\* C8: between the second open and the write the file is empty, and after a
\* write that raised it holds a proper prefix of the bytes of the content:
\* the old bytes are gone before the new ones are in.
C8_NotTransactional ==
  \A p \in Procs :
    /\ pc[p] = "write" => file = <<>>
    /\ exc[p] = "write" =>
         ProperPrefix(file, TextWrite(content[p], linesep))

\* a run failed in the write of a file with a match: the file holds neither
\* the bytes of before nor the bytes of the content, and the content in memory
\* is not the text of before either
C8_Witness ==
  /\ pc[1] = "failed"
  /\ exc[1] = "write"
  /\ Count(OldText, orig) >= 1
  /\ file # <<>>
  /\ file # orig
  /\ file # TextWrite(content[1], linesep)
  /\ content[1] # TextRead(orig)

\* ------------------------------------------------------------------------
\* C9

\* C9: a successful run on a file that holds parts of the old text (its head,
\* its tail, the two with a character between them) and never the whole of it
\* leaves the bytes of the file as they were.
C9_PartialUnchanged ==
  \A p \in Procs :
    Finished(p) /\ OnlyPartial(orig) => file = orig

\* ------------------------------------------------------------------------
\* C10

\* C10 as stated: when two runs on the same file both complete, the file holds
\* what one run on the first content leaves.
C10_AnyInterleaving ==
  Finished(1) /\ Finished(2) => file = OneRun(orig, linesep)

\* C10, amended: when two runs on the same file both complete and neither
\* read the file while the other held it open for writing, the file holds what
\* one run on the first content leaves.
C10_NoReadDuringWrite ==
  Finished(1) /\ Finished(2) /\ ~raced[1] /\ ~raced[2] =>
    file = OneRun(orig, linesep)

\* two overlapping runs completed, both having read the first content, which
\* had a match
C10_Witness ==
  /\ Finished(1) /\ Finished(2)
  /\ prior[2] = {}
  /\ ~raced[1] /\ ~raced[2]
  /\ seen[1] = orig /\ seen[2] = orig
  /\ Count(OldText, orig) >= 1

====
